---- MODULE Spec2Model ----
(***************************************************************************)
(* Lazy pull iterators (package iter): the Option value and its Unwrap,    *)
(* the sources Slice, Func, Repeat and Empty, the adapters Fuse,           *)
(* TakeWhile, Take, Drop, DropWhile, Filter, Chain and Flatten, and the    *)
(* consumers ForEach, ToSlice, Count, Find and Fold.                       *)
(*                                                                         *)
(* An iterator is a record whose field kind names its Go type and whose    *)
(* other fields are the fields of that type.  X.Next() is the operator     *)
(* NextOf(X): it returns the iterator as the call leaves it together with  *)
(* the Option the call returns.                                            *)
(***************************************************************************)
EXTENDS Integers, Sequences, FiniteSets, TLC

\* ------------------------------------------------------------- bounds
\* Element values are 1..MaxVal.
MaxVal == 2
\* Longest slice, and longest script of a Func callback.
MaxLen == 3
\* Longest second slice, and longest script of the second callback, of Chain.
MaxLen2 == 2
\* Largest n handed to Drop.
MaxN == 4
\* Most Next calls a consumer makes on the iterator under test.
MaxCalls == 5
\* Longest inner iterator handed to Flatten.
MaxInner == 2
\* Most inner iterators in the slice handed to Flatten.
MaxOuter == 3
\* Longest script of the callback that hands inner iterators to Flatten.
MaxOuterFn == 2
\* Most Unwrap calls a consumer makes on the Options Next hands it.
MaxUnwraps == 2
\* Most Next calls a consumer makes on a source after Find has returned.
MaxAfter == 2

Values == 1..MaxVal

\* ------------------------------------------------------------- Option
\* Some(v): an Option holding v.
Some(v) == [some |-> TRUE, val |-> v]

\* None(): the empty Option.
None == [some |-> FALSE]

IsSome(opt) == opt.some

IsNone(opt) == ~opt.some

\* Some.Unwrappable is true, None.Unwrappable is false.
Unwrappable(opt) == opt.some

\* errors.New("unwrapped an empty `Option`"), the message without its quotes.
ErrUnwrapNone == "unwrapped an empty Option"

\* The two ways a call ends: panic(e), or return t.
Panic(e) == [panic |-> TRUE, err |-> e]

Return(t) == [panic |-> FALSE, ret |-> t]

\* option.Unwrap handing back T's zero value for None (C18 rejects it).
optionUnwrapZero(o) ==
    IF ~Unwrappable(o) THEN Return(0) ELSE Return(o.val)

\* option.Unwrap, as the outcome of the call.
optionUnwrap(o) ==
    IF ~Unwrappable(o) THEN Panic(ErrUnwrapNone) ELSE Return(o.val)

\* Unwrap where it returns (callers below only unwrap after IsSome).
Unwrap(opt) == optionUnwrap(opt).ret

Options == {None} \cup {Some(v) : v \in Values}

\* ------------------------------------------------------------- inputs
\* Sequences over S of length 0..n.
SeqsUpTo(S, n) == UNION {[1..k -> S] : k \in 0..n}

\* A predicate func(T) bool is the set of values it returns true for.
Preds == SUBSET Values

\* pred(v)
Apply(pred, v) == v \in pred

\* What a Next call hands back: the iterator after the call and the Option.
Ret(it, v) == [it |-> it, v |-> v]

RECURSIVE NextOf(_)

\* ------------------------------------------------------------- sources
\* Slice(slice)
Slice(slice) == [kind |-> "slice", slice |-> slice]

\* sliceIterNext taking a slice of one element for empty (C16 rejects it).
sliceIterNextStopsEarly(it) ==
    IF Len(it.slice) <= 1
    THEN Ret(it, None)
    ELSE Ret([it EXCEPT !.slice = Tail(it.slice)], Some(Head(it.slice)))

\* (*sliceIter).Next
sliceIterNext(it) ==
    IF Len(it.slice) = 0
    THEN Ret(it, None)
    ELSE Ret([it EXCEPT !.slice = Tail(it.slice)], Some(Head(it.slice)))

\* Func(fn).  The callback owns its state: a script of the Options it will
\* return, in order, and the number of times it has been called; past the
\* end of its script it returns None.  A script may hold Some after None.
Func(fn) == [kind |-> "func", fn |-> fn, calls |-> 0]

\* (*funcIter).Next: return it.fn()
funcIterNext(it) ==
    Ret([it EXCEPT !.calls = @ + 1],
        IF it.calls < Len(it.fn) THEN it.fn[it.calls + 1] ELSE None)

\* ------------------------------------------------------------- adapters
\* Fuse(it)
Fuse(inner) == [kind |-> "fuse", inner |-> inner, done |-> FALSE]

\* fuseIterNext with the done flag never set (C1 rejects it).
fuseIterNextNoFlag(it) ==
    IF it.done
    THEN Ret(it, None)
    ELSE LET r == NextOf(it.inner) IN Ret([it EXCEPT !.inner = r.it], r.v)

\* (*fuseIter).Next
fuseIterNext(it) ==
    IF it.done
    THEN Ret(it, None)
    ELSE LET r == NextOf(it.inner) IN
         IF IsNone(r.v)
         THEN Ret([it EXCEPT !.inner = r.it, !.done = TRUE], r.v)
         ELSE Ret([it EXCEPT !.inner = r.it], r.v)

\* TakeWhile(it, pred)
TakeWhile(inner, pred) ==
    [kind |-> "takeWhile", inner |-> inner, pred |-> pred, done |-> FALSE]

\* takeWhileIterNext with done set only on upstream None, not on a value
\* failing pred (C7 rejects it).
takeWhileIterNextNoFlag(it) ==
    IF it.done
    THEN Ret(it, None)
    ELSE LET r == NextOf(it.inner) IN
         IF IsNone(r.v)
         THEN Ret([it EXCEPT !.inner = r.it, !.done = TRUE], r.v)
         ELSE IF ~Apply(it.pred, Unwrap(r.v))
              THEN Ret([it EXCEPT !.inner = r.it], None)
              ELSE Ret([it EXCEPT !.inner = r.it], r.v)

\* takeWhileIterNext returning the value that failed pred (C8 rejects it).
takeWhileIterNextYieldsFailing(it) ==
    IF it.done
    THEN Ret(it, None)
    ELSE LET r == NextOf(it.inner) IN
         IF IsNone(r.v) \/ ~Apply(it.pred, Unwrap(r.v))
         THEN Ret([it EXCEPT !.inner = r.it, !.done = TRUE], r.v)
         ELSE Ret([it EXCEPT !.inner = r.it], r.v)

\* (*takeWhileIter).Next
takeWhileIterNext(it) ==
    IF it.done
    THEN Ret(it, None)
    ELSE LET r == NextOf(it.inner) IN
         IF IsNone(r.v)
         THEN Ret([it EXCEPT !.inner = r.it, !.done = TRUE], r.v)
         ELSE IF ~Apply(it.pred, Unwrap(r.v))
              THEN Ret([it EXCEPT !.inner = r.it, !.done = TRUE], None)
              ELSE Ret([it EXCEPT !.inner = r.it], r.v)

\* Drop(it, n)
Drop(inner, n) == [kind |-> "drop", inner |-> inner, drop |-> n]

\* dropIterNext returning the upstream's None without it.drop = 0 (C19
\* rejects it).
RECURSIVE dropIterNextNoReset(_)
dropIterNextNoReset(it) ==
    IF it.drop > 0
    THEN LET r == NextOf(it.inner) IN
         IF IsNone(r.v)
         THEN Ret([it EXCEPT !.inner = r.it], r.v)
         ELSE dropIterNextNoReset([it EXCEPT !.inner = r.it, !.drop = @ - 1])
    ELSE LET r == NextOf(it.inner) IN Ret([it EXCEPT !.inner = r.it], r.v)

\* dropIterNext looping while drop > 1 (C4 rejects it).
RECURSIVE dropIterNextOffByOne(_)
dropIterNextOffByOne(it) ==
    LET r == NextOf(it.inner) IN
    IF it.drop > 1
    THEN IF IsNone(r.v)
         THEN Ret([it EXCEPT !.inner = r.it, !.drop = 0], r.v)
         ELSE dropIterNextOffByOne([it EXCEPT !.inner = r.it, !.drop = @ - 1])
    ELSE Ret([it EXCEPT !.inner = r.it, !.drop = 0], r.v)

\* dropIterNext ending with return v, the last value the loop pulled,
\* instead of return it.inner.Next() (C5 rejects it).
RECURSIVE dropIterNextLoop(_, _)
dropIterNextLoop(it, v) ==
    IF it.drop > 0
    THEN LET r == NextOf(it.inner) IN
         IF IsNone(r.v)
         THEN Ret([it EXCEPT !.inner = r.it, !.drop = 0], r.v)
         ELSE dropIterNextLoop([it EXCEPT !.inner = r.it, !.drop = @ - 1], r.v)
    ELSE Ret(it, v)

dropIterNextReturnsV(it) == dropIterNextLoop(it, None)

\* (*dropIter).Next: the for loop, one iteration per unfolding, then the
\* final return it.inner.Next().
RECURSIVE dropIterNext(_)
dropIterNext(it) ==
    LET r == NextOf(it.inner) IN
    IF it.drop > 0
    THEN IF IsNone(r.v)
         THEN Ret([it EXCEPT !.inner = r.it, !.drop = 0], r.v)
         ELSE dropIterNext([it EXCEPT !.inner = r.it, !.drop = @ - 1])
    ELSE Ret([it EXCEPT !.inner = r.it], r.v)

\* DropWhile(it, pred)
DropWhile(inner, pred) ==
    [kind |-> "dropWhile", inner |-> inner, pred |-> pred, done |-> FALSE]

\* dropWhileIterNext dropping until pred returns true (C2 rejects it).
RECURSIVE dropWhileIterNextUntil(_)
dropWhileIterNextUntil(it) ==
    LET r == NextOf(it.inner) IN
    IF ~it.done
    THEN IF IsNone(r.v)
         THEN Ret([it EXCEPT !.inner = r.it, !.done = TRUE], r.v)
         ELSE IF Apply(it.pred, Unwrap(r.v))
              THEN Ret([it EXCEPT !.inner = r.it, !.done = TRUE], r.v)
              ELSE dropWhileIterNextUntil([it EXCEPT !.inner = r.it])
    ELSE Ret([it EXCEPT !.inner = r.it], r.v)

\* dropWhileIterNext with done set only on upstream None, so that it keeps
\* discarding values satisfying pred (C3 rejects it).
RECURSIVE dropWhileIterNextNoFlag(_)
dropWhileIterNextNoFlag(it) ==
    LET r == NextOf(it.inner) IN
    IF ~it.done
    THEN IF IsNone(r.v)
         THEN Ret([it EXCEPT !.inner = r.it, !.done = TRUE], r.v)
         ELSE IF ~Apply(it.pred, Unwrap(r.v))
              THEN Ret([it EXCEPT !.inner = r.it], r.v)
              ELSE dropWhileIterNextNoFlag([it EXCEPT !.inner = r.it])
    ELSE Ret([it EXCEPT !.inner = r.it], r.v)

\* dropWhileIterNext with done as an exhaustion flag: set on upstream None
\* only, and None returned without an upstream call once set (C6 rejects it).
RECURSIVE dropWhileIterNextFused(_)
dropWhileIterNextFused(it) ==
    IF it.done
    THEN Ret(it, None)
    ELSE LET r == NextOf(it.inner) IN
         IF IsNone(r.v)
         THEN Ret([it EXCEPT !.inner = r.it, !.done = TRUE], r.v)
         ELSE IF ~Apply(it.pred, Unwrap(r.v))
              THEN Ret([it EXCEPT !.inner = r.it], r.v)
              ELSE dropWhileIterNextFused([it EXCEPT !.inner = r.it])

\* (*dropWhileIter).Next: the for loop while !done, one iteration per
\* unfolding; once done, return it.inner.Next().
RECURSIVE dropWhileIterNext(_)
dropWhileIterNext(it) ==
    LET r == NextOf(it.inner) IN
    IF ~it.done
    THEN IF IsNone(r.v)
         THEN Ret([it EXCEPT !.inner = r.it, !.done = TRUE], r.v)
         ELSE IF ~Apply(it.pred, Unwrap(r.v))
              THEN Ret([it EXCEPT !.inner = r.it, !.done = TRUE], r.v)
              ELSE dropWhileIterNext([it EXCEPT !.inner = r.it])
    ELSE Ret([it EXCEPT !.inner = r.it], r.v)

\* Chain(first, second): first is wrapped in Fuse.
Chain(first, second) ==
    [kind |-> "chain", first |-> Fuse(first), second |-> second]

\* chainIterNext calling the iterator under first's Fuse directly, as if
\* Chain had not wrapped first (C9 rejects it).
chainIterNextResumes(it) ==
    LET v == NextOf(it.first.inner) IN
    IF IsSome(v.v)
    THEN Ret([it EXCEPT !.first.inner = v.it], v.v)
    ELSE LET w == NextOf(it.second) IN
         Ret([it EXCEPT !.first.inner = v.it, !.second = w.it], w.v)

\* chainIterNext calling second.Next() before it looks at first's result
\* (C10 rejects it).
chainIterNextEager(it) ==
    LET v == NextOf(it.first)
        w == NextOf(it.second) IN
    IF IsSome(v.v)
    THEN Ret([it EXCEPT !.first = v.it, !.second = w.it], v.v)
    ELSE Ret([it EXCEPT !.first = v.it, !.second = w.it], w.v)

\* (*chainIter).Next
chainIterNext(it) ==
    LET v == NextOf(it.first) IN
    IF IsSome(v.v)
    THEN Ret([it EXCEPT !.first = v.it], v.v)
    ELSE LET w == NextOf(it.second) IN
         Ret([it EXCEPT !.first = v.it, !.second = w.it], w.v)

\* Filter(it, pred)
Filter(inner, pred) == [kind |-> "filter", inner |-> inner, pred |-> pred]

\* filterIterNext with an if for the for: after a value failing pred it
\* returns the next upstream result whatever it is (C14 rejects it).
filterIterNextNoLoop(it) ==
    LET v == NextOf(it.inner) IN
    IF IsSome(v.v) /\ ~Apply(it.pred, Unwrap(v.v))
    THEN LET w == NextOf(v.it) IN Ret([it EXCEPT !.inner = w.it], w.v)
    ELSE Ret([it EXCEPT !.inner = v.it], v.v)

\* (*filterIter).Next: v := it.inner.Next(), then the for loop, one
\* iteration per unfolding.
RECURSIVE filterIterNext(_)
filterIterNext(it) ==
    LET v == NextOf(it.inner) IN
    IF IsSome(v.v) /\ ~Apply(it.pred, Unwrap(v.v))
    THEN filterIterNext([it EXCEPT !.inner = v.it])
    ELSE Ret([it EXCEPT !.inner = v.it], v.v)

\* Repeat(value)
Repeat(value) == [kind |-> "repeat", value |-> value]

\* (*repeatIter).Next
repeatIterNext(it) == Ret(it, Some(it.value))

\* Take(it, n)
Take(inner, n) == [kind |-> "take", inner |-> inner, take |-> n]

\* takeIterNext decrementing on every pull, None included (C13 rejects it).
takeIterNextCountsNone(it) ==
    IF it.take = 0
    THEN Ret(it, None)
    ELSE LET v == NextOf(it.inner) IN
         Ret([it EXCEPT !.inner = v.it, !.take = @ - 1], v.v)

\* takeIterNext pulling the upstream before it looks at take (C20 rejects
\* it).
takeIterNextPullsFirst(it) ==
    LET v == NextOf(it.inner) IN
    IF it.take = 0
    THEN Ret([it EXCEPT !.inner = v.it], None)
    ELSE IF IsSome(v.v)
         THEN Ret([it EXCEPT !.inner = v.it, !.take = @ - 1], v.v)
         ELSE Ret([it EXCEPT !.inner = v.it], v.v)

\* (*takeIter).Next.  take is a uint; it is decremented only when non-zero.
takeIterNext(it) ==
    IF it.take = 0
    THEN Ret(it, None)
    ELSE LET v == NextOf(it.inner) IN
         IF IsSome(v.v)
         THEN Ret([it EXCEPT !.inner = v.it, !.take = @ - 1], v.v)
         ELSE Ret([it EXCEPT !.inner = v.it], v.v)

\* Empty()
Empty == [kind |-> "empty"]

\* (*emptyIter).Next
emptyIterNext(it) == Ret(it, None)

\* Flatten(it): it yields iterators.
Flatten(inner) ==
    [kind |-> "flatten", inner |-> inner, current |-> Empty, done |-> FALSE]

\* flattenIterNext with an if for the for: after it has taken a new inner
\* iterator it returns what that yields first, None included (C11 rejects
\* it).
flattenIterNextNoLoop(it) ==
    IF it.done
    THEN Ret(it, None)
    ELSE LET v == NextOf(it.current) IN
         IF IsSome(v.v)
         THEN Ret([it EXCEPT !.current = v.it], v.v)
         ELSE LET next == NextOf(it.inner) IN
              IF IsNone(next.v)
              THEN Ret([it EXCEPT !.current = v.it, !.inner = next.it,
                                  !.done = TRUE], None)
              ELSE LET w == NextOf(Unwrap(next.v)) IN
                   Ret([it EXCEPT !.inner = next.it, !.current = w.it], w.v)

\* flattenIterNext that never looks at done (C12 rejects it).
RECURSIVE flattenIterNextNoDone(_)
flattenIterNextNoDone(it) ==
    LET v == NextOf(it.current) IN
    IF IsSome(v.v)
    THEN Ret([it EXCEPT !.current = v.it], v.v)
    ELSE LET next == NextOf(it.inner) IN
         IF IsNone(next.v)
         THEN Ret([it EXCEPT !.current = v.it, !.inner = next.it,
                             !.done = TRUE], None)
         ELSE flattenIterNextNoDone(
                  [it EXCEPT !.inner = next.it, !.current = Unwrap(next.v)])

\* (*flattenIter).Next: the for loop, one iteration per unfolding.
RECURSIVE flattenIterNext(_)
flattenIterNext(it) ==
    IF it.done
    THEN Ret(it, None)
    ELSE LET v == NextOf(it.current) IN
         IF IsSome(v.v)
         THEN Ret([it EXCEPT !.current = v.it], v.v)
         ELSE LET next == NextOf(it.inner) IN
              IF IsNone(next.v)
              THEN Ret([it EXCEPT !.current = v.it, !.inner = next.it,
                                  !.done = TRUE], None)
              ELSE flattenIterNext(
                       [it EXCEPT !.inner = next.it, !.current = Unwrap(next.v)])

\* X.Next(): dynamic dispatch on the iterator's type.
NextOf(it) ==
    CASE it.kind = "slice"     -> sliceIterNext(it)
      [] it.kind = "func"      -> funcIterNext(it)
      [] it.kind = "fuse"      -> fuseIterNext(it)
      [] it.kind = "takeWhile" -> takeWhileIterNext(it)
      [] it.kind = "drop"      -> dropIterNext(it)
      [] it.kind = "dropWhile" -> dropWhileIterNext(it)
      [] it.kind = "chain"     -> chainIterNext(it)
      [] it.kind = "empty"     -> emptyIterNext(it)
      [] it.kind = "repeat"    -> repeatIterNext(it)
      [] it.kind = "take"      -> takeIterNext(it)
      [] it.kind = "filter"    -> filterIterNext(it)
      [] it.kind = "flatten"   -> flattenIterNext(it)

\* ------------------------------------------------------------- consumers
\* ForEach(it, fn): the values fn is applied to, in order, and the iterator
\* as the loop leaves it.
RECURSIVE ForEachFrom(_, _)
ForEachFrom(it, seen) ==
    LET r == NextOf(it) IN
    IF IsSome(r.v)
    THEN ForEachFrom(r.it, Append(seen, Unwrap(r.v)))
    ELSE [it |-> r.it, vals |-> seen]

ForEach(it) == ForEachFrom(it, <<>>)

\* ToSlice(it): result := []T{}; ForEach appends every value to it.
ToSlice(it) == ForEach(it).vals

\* Count(it): the loop, with length the count so far.
RECURSIVE CountFrom(_, _)
CountFrom(it, length) ==
    LET v == NextOf(it) IN
    IF IsSome(v.v)
    THEN CountFrom(v.it, length + 1)
    ELSE [it |-> v.it, length |-> length]

Count(it) == CountFrom(it, 0).length

\* Find(it, pred) as the first element of ToSlice(Filter(it, pred)): it runs
\* the upstream to its first None whatever it finds (C21 rejects it).
FindEager(it, pred) ==
    LET r == ForEach(Filter(it, pred)) IN
    Ret(r.it, IF r.vals = <<>> THEN None ELSE Some(Head(r.vals)))

\* Find(it, pred) with the next upstream result returned whether or not it
\* satisfies pred (C15 rejects it).
FindAny(it, pred) ==
    LET v == NextOf(it) IN Ret(Filter(v.it, pred), v.v)

\* Find(it, pred): Filter(it, pred).Next(); the iterator handed back is the
\* Filter, whose inner is it as the call leaves it.
Find(it, pred) == NextOf(Filter(it, pred))

\* The functions fn handed to Fold: "add" is ret + v, "cons" builds the
\* term <<ret, v>>, which tells every order and grouping apart.
Fns == {"add", "cons"}

\* fn(ret, v)
ApplyFn(fn, ret, v) == IF fn = "add" THEN ret + v ELSE <<ret, v>>

\* Fold's closure with fn's arguments swapped (C17 rejects it).
RECURSIVE FoldOverSwapped(_, _, _)
FoldOverSwapped(vals, ret, fn) ==
    IF vals = <<>>
    THEN ret
    ELSE FoldOverSwapped(Tail(vals), ApplyFn(fn, Head(vals), ret), fn)

\* Fold's closure ret = fn(ret, v), run by ForEach on each value in turn.
RECURSIVE FoldOver(_, _, _)
FoldOver(vals, ret, fn) ==
    IF vals = <<>>
    THEN ret
    ELSE FoldOver(Tail(vals), ApplyFn(fn, ret, Head(vals)), fn)

\* Fold(it, init, fn)
Fold(it, init, fn) == FoldOver(ForEach(it).vals, init, fn)

\* Find as the program sees it: the Option returned, and the iterator it
\* was handed, which the Filter has advanced.
FindOn(it, pred) == LET r == Find(it, pred) IN Ret(r.it.inner, r.v)

\* ------------------------------------------------------------- state
VARIABLES
    it0,     \* the iterator as constructed
    it,      \* the iterator now
    hist,    \* per Next call made by the consumer: the Option returned (v)
             \* and how often each callback had been called by then (calls)
    result,  \* <<ToSlice's result>> once ToSlice has consumed it, else <<>>;
             \* likewise for the other consuming functions
    op,      \* the consuming function that gave result, with its arguments
    unwrapped, \* per Unwrap call made by the consumer: the Next call whose
             \* Option it was made on (call) and how it ended (out)
    after,   \* per Next call made on the source after Find has returned:
             \* the Option returned
    pc       \* where a ForEach run step by step stands (at), with the Next
             \* call in progress: where it stands (loc), its local v, the
             \* iterator it started from (start), its upstream pulls so far
             \* (pulls); and the values handed to fn so far (seen)

vars == <<it0, it, hist, result, op, unwrapped, after, pc>>

Scripts == SeqsUpTo(Options, MaxLen)

Scripts2 == SeqsUpTo(Options, MaxLen2)

Slices == SeqsUpTo(Values, MaxLen)

Slices2 == SeqsUpTo(Values, MaxLen2)

\* Flatten never looks at the elements, so the inner iterators handed to it
\* hold distinct ones: element k of the i-th inner iterator is <<i, k>>.
\* An inner slice iterator of n elements:
InnerSlice(i, n) == Slice([k \in 1..n |-> <<i, k>>])

\* The slices of inner slice iterators, by the lengths of the inner slices.
OuterSlices ==
    {[i \in 1..Len(ns) |-> InnerSlice(i, ns[i])] :
        ns \in SeqsUpTo(0..MaxInner, MaxOuter)}

\* An inner callback iterator; present[k] says whether its k-th return is a
\* value or None.
InnerFunc(i, present) ==
    Func([k \in 1..Len(present) |->
              IF present[k] THEN Some(<<i, k>>) ELSE None])

InnerShapes == SeqsUpTo(BOOLEAN, MaxInner)

\* The scripts of a callback that hands out inner callback iterators: each
\* return is None or an inner iterator.
OuterScripts ==
    {[i \in 1..Len(sh) |->
          IF sh[i] = <<>> THEN None ELSE Some(InnerFunc(i, sh[i][1]))] :
        sh \in SeqsUpTo({<<>>} \cup {<<x>> : x \in InnerShapes}, MaxOuterFn)}

\* it0 is an iterator a program constructs: a source, or an adapter over a
\* source.
Constructed ==
    \/ \E s \in Slices : it0 = Slice(s)
    \/ \E s \in Scripts : it0 = Func(s)
    \/ \E s \in Scripts, p \in Preds : it0 = Filter(Func(s), p)
    \/ \E s \in Slices, p \in Preds : it0 = Filter(Slice(s), p)
    \/ \E s \in Scripts : it0 = Fuse(Func(s))
    \/ \E s \in Scripts, p \in Preds : it0 = TakeWhile(Func(s), p)
    \/ \E s \in Slices, p \in Preds : it0 = TakeWhile(Slice(s), p)
    \/ \E s \in Scripts, n \in 0..MaxN : it0 = Drop(Func(s), n)
    \/ \E s \in Slices, n \in 0..MaxN : it0 = Drop(Slice(s), n)
    \/ \E s \in Scripts, p \in Preds : it0 = DropWhile(Func(s), p)
    \/ \E s \in Slices, p \in Preds : it0 = DropWhile(Slice(s), p)
    \/ \E s \in Scripts, t \in Scripts2 : it0 = Chain(Func(s), Func(t))
    \/ \E s \in Slices, t \in Slices2 : it0 = Chain(Slice(s), Slice(t))
    \/ \E s \in Scripts, n \in 0..MaxN : it0 = Take(Func(s), n)
    \/ \E s \in Slices, n \in 0..MaxN : it0 = Take(Slice(s), n)
    \/ \E v \in Values, n \in 0..MaxN : it0 = Take(Repeat(v), n)
    \/ \E s \in OuterSlices : it0 = Flatten(Slice(s))
    \/ \E s \in OuterScripts : it0 = Flatten(Func(s))

Init ==
    /\ Constructed
    /\ it = it0
    /\ hist = <<>>
    /\ result = <<>>
    /\ op = [name |-> "none"]
    /\ unwrapped = <<>>
    /\ after = <<>>
    /\ pc = [at |-> "none"]

\* The call counts of the callbacks under an iterator, left to right.
RECURSIVE CallsOf(_)
CallsOf(i) ==
    CASE i.kind = "func"  -> <<i.calls>>
      [] i.kind = "slice" -> <<>>
      [] i.kind = "chain" -> CallsOf(i.first) \o CallsOf(i.second)
      [] i.kind = "empty" -> <<>>
      [] i.kind = "repeat" -> <<>>
      [] i.kind = "flatten" -> CallsOf(i.inner) \o CallsOf(i.current)
      [] OTHER            -> CallsOf(i.inner)

\* An Unwrap has panicked: the program has stopped.
Panicked == unwrapped # <<>> /\ unwrapped[Len(unwrapped)].out.panic

\* One it.Next() by the consumer; r is what the method of it's type returns.
Call(r) ==
    /\ result = <<>>
    /\ ~Panicked
    /\ Len(hist) < MaxCalls
    /\ it' = r.it
    /\ hist' = Append(hist, [v |-> r.v, calls |-> CallsOf(r.it)])
    /\ UNCHANGED <<it0, result, op, unwrapped, after, pc>>

FuseNext == it.kind = "fuse" /\ Call(fuseIterNext(it))

TakeWhileNext == it.kind = "takeWhile" /\ Call(takeWhileIterNext(it))

DropNext == it.kind = "drop" /\ Call(dropIterNext(it))

DropWhileNext == it.kind = "dropWhile" /\ Call(dropWhileIterNext(it))

ChainNext == it.kind = "chain" /\ Call(chainIterNext(it))

FlattenNext == it.kind = "flatten" /\ Call(flattenIterNext(it))

TakeNext == it.kind = "take" /\ Call(takeIterNext(it))

FilterNext == it.kind = "filter" /\ Call(filterIterNext(it))

SliceNext == it.kind = "slice" /\ Call(sliceIterNext(it))

FuncNext == it.kind = "func" /\ Call(funcIterNext(it))

\* ToSlice(it) on the iterator as it stands.
CallToSlice ==
    /\ result = <<>>
    /\ unwrapped = <<>>
    /\ it' = ForEach(it).it
    /\ result' = <<ToSlice(it)>>
    /\ op' = [name |-> "ToSlice"]
    /\ UNCHANGED <<it0, hist, unwrapped, after, pc>>

\* Count(it) on a Take as it stands.
CallCount ==
    /\ result = <<>>
    /\ unwrapped = <<>>
    /\ it.kind = "take"
    /\ it' = CountFrom(it, 0).it
    /\ result' = <<Count(it)>>
    /\ op' = [name |-> "Count"]
    /\ UNCHANGED <<it0, hist, unwrapped, after, pc>>

\* Find(it, pred) on a source as it stands.
CallFind ==
    /\ result = <<>>
    /\ unwrapped = <<>>
    /\ it.kind \in {"slice", "func"}
    /\ \E pred \in Preds :
        /\ it' = FindOn(it, pred).it
        /\ result' = <<FindOn(it, pred).v>>
        /\ op' = [name |-> "Find", pred |-> pred]
    /\ UNCHANGED <<it0, hist, unwrapped, after, pc>>

\* Fold(it, init, fn) on a source as it stands.
CallFold ==
    /\ result = <<>>
    /\ unwrapped = <<>>
    /\ it.kind \in {"slice", "func"}
    /\ \E init \in 0..MaxVal, fn \in Fns :
        /\ it' = ForEach(it).it
        /\ result' = <<Fold(it, init, fn)>>
        /\ op' = [name |-> "Fold", init |-> init, fn |-> fn]
    /\ UNCHANGED <<it0, hist, unwrapped, after, pc>>

\* Unwrap() on the Option the last Next of a source returned, as in
\* it.Next().Unwrap(); a run that unwraps does not go on to a consumer.
CallUnwrap ==
    /\ result = <<>>
    /\ ~Panicked
    /\ it0.kind \in {"slice", "func"}
    /\ hist # <<>>
    /\ Len(unwrapped) < MaxUnwraps
    /\ unwrapped' = Append(unwrapped,
            [call |-> Len(hist), out |-> optionUnwrap(hist[Len(hist)].v)])
    /\ UNCHANGED <<it0, it, hist, result, op, after, pc>>

\* it.Next() on the source once Find(it, pred) has returned.
NextAfterFind ==
    /\ op.name = "Find"
    /\ Len(after) < MaxAfter
    /\ it' = NextOf(it).it
    /\ after' = Append(after, NextOf(it).v)
    /\ UNCHANGED <<it0, hist, result, op, unwrapped, pc>>

Next ==
    \/ FuseNext
    \/ TakeWhileNext
    \/ DropNext
    \/ DropWhileNext
    \/ ChainNext
    \/ FlattenNext
    \/ TakeNext
    \/ FilterNext
    \/ SliceNext
    \/ FuncNext
    \/ CallToSlice
    \/ CallCount
    \/ CallFind
    \/ CallFold
    \/ CallUnwrap
    \/ NextAfterFind

Spec == Init /\ [][Next]_vars

\* ------------------------------------------------- ForEach, step by step
\* What one step of a Next call in progress does: it goes on (Stay) or
\* returns v (Back), having pulled the upstream n times.
Stay(i, v, n) == [ret |-> FALSE, it |-> i, v |-> v, n |-> n]

Back(i, v, n) == [ret |-> TRUE, it |-> i, v |-> v, n |-> n]

\* filterIterStep whose loop body lacks v = it.inner.Next() (C22 rejects
\* it).
filterIterStepNoPull(i, loc, v) ==
    IF loc = "entry"
    THEN LET r == NextOf(i.inner) IN Stay([i EXCEPT !.inner = r.it], r.v, 1)
    ELSE IF IsSome(v) /\ ~Apply(i.pred, Unwrap(v))
         THEN Stay(i, v, 0)
         ELSE Back(i, v, 0)

\* (*filterIter).Next: at entry v := it.inner.Next(); then one test of the
\* for loop per step.
filterIterStep(i, loc, v) ==
    IF loc = "entry"
    THEN LET r == NextOf(i.inner) IN Stay([i EXCEPT !.inner = r.it], r.v, 1)
    ELSE IF IsSome(v) /\ ~Apply(i.pred, Unwrap(v))
         THEN LET r == NextOf(i.inner) IN
              Stay([i EXCEPT !.inner = r.it], r.v, 1)
         ELSE Back(i, v, 0)

\* (*dropIter).Next: at entry v := None; then one test of the for loop per
\* step, the last one followed by return it.inner.Next().
dropIterStep(i, loc, v) ==
    IF loc = "entry"
    THEN Stay(i, None, 0)
    ELSE LET r == NextOf(i.inner) IN
         IF i.drop > 0
         THEN IF IsNone(r.v)
              THEN Back([i EXCEPT !.inner = r.it, !.drop = 0], r.v, 1)
              ELSE Stay([i EXCEPT !.inner = r.it, !.drop = @ - 1], r.v, 1)
         ELSE Back([i EXCEPT !.inner = r.it], r.v, 1)

\* (*dropWhileIter).Next: at entry the test of done; then one round of the
\* for loop per step.
dropWhileIterStep(i, loc, v) ==
    LET r == NextOf(i.inner) IN
    IF loc = "entry"
    THEN IF ~i.done
         THEN Stay(i, None, 0)
         ELSE Back([i EXCEPT !.inner = r.it], r.v, 1)
    ELSE IF IsNone(r.v) \/ ~Apply(i.pred, Unwrap(r.v))
         THEN Back([i EXCEPT !.inner = r.it, !.done = TRUE], r.v, 1)
         ELSE Stay([i EXCEPT !.inner = r.it], r.v, 1)

\* (*flattenIter).Next: one invocation per step; the closing
\* return it.Next() is the next step.
flattenIterStep(i, loc, v) ==
    IF i.done
    THEN Back(i, None, 0)
    ELSE LET c == NextOf(i.current) IN
         IF IsSome(c.v)
         THEN Back([i EXCEPT !.current = c.it], c.v, 1)
         ELSE LET next == NextOf(i.inner) IN
              IF IsNone(next.v)
              THEN Back([i EXCEPT !.current = c.it, !.inner = next.it,
                                  !.done = TRUE], None, 2)
              ELSE Stay([i EXCEPT !.inner = next.it,
                                  !.current = Unwrap(next.v)], c.v, 2)

\* ForEach starts on a looping adapter over slices.
Looping ==
    \/ \E s \in Slices, p \in Preds : it0 = Filter(Slice(s), p)
    \/ \E s \in Slices, n \in 0..MaxN : it0 = Drop(Slice(s), n)
    \/ \E s \in Slices, p \in Preds : it0 = DropWhile(Slice(s), p)
    \/ \E s \in OuterSlices : it0 = Flatten(Slice(s))

InitSteps ==
    /\ Looping
    /\ it = it0
    /\ hist = <<>>
    /\ result = <<>>
    /\ op = [name |-> "ForEach"]
    /\ unwrapped = <<>>
    /\ after = <<>>
    /\ pc = [at |-> "call", loc |-> "entry", v |-> None, start |-> it0,
             pulls |-> 0, seen |-> <<>>]

\* ForEach calls it.Next(): v := it.Next() before the loop, v = it.Next()
\* in it.
ForEachCall ==
    /\ pc.at = "call"
    /\ pc' = [pc EXCEPT !.at = "next", !.loc = "entry", !.start = it,
                        !.pulls = 0]
    /\ UNCHANGED <<it0, it, hist, result, op, unwrapped, after>>

\* One step r of the Next call in progress.
Step(r) ==
    /\ pc.at = "next"
    /\ it' = r.it
    /\ pc' = [pc EXCEPT !.at = IF r.ret THEN "test" ELSE "next",
                        !.loc = "loop", !.v = r.v, !.pulls = @ + r.n]
    /\ UNCHANGED <<it0, hist, result, op, unwrapped, after>>

FilterStep == it.kind = "filter" /\ Step(filterIterStep(it, pc.loc, pc.v))

DropStep == it.kind = "drop" /\ Step(dropIterStep(it, pc.loc, pc.v))

DropWhileStep ==
    it.kind = "dropWhile" /\ Step(dropWhileIterStep(it, pc.loc, pc.v))

FlattenStep == it.kind = "flatten" /\ Step(flattenIterStep(it, pc.loc, pc.v))

\* ForEach's loop test v.IsSome(): fn(v.Unwrap()) and the next call, or the
\* return.
ForEachTest ==
    /\ pc.at = "test"
    /\ pc' = IF IsSome(pc.v)
             THEN [pc EXCEPT !.at = "call", !.seen = Append(@, Unwrap(pc.v))]
             ELSE [pc EXCEPT !.at = "done"]
    /\ UNCHANGED <<it0, it, hist, result, op, unwrapped, after>>

NextSteps ==
    \/ ForEachCall
    \/ FilterStep
    \/ DropStep
    \/ DropWhileStep
    \/ FlattenStep
    \/ ForEachTest

\* A running program takes its next step: weak fairness of the whole.
SpecSteps == InitSteps /\ [][NextSteps]_vars /\ WF_vars(NextSteps)

\* ------------------------------------------------------------- properties
\* What a callback with script fn returns on its k-th call.
ScriptAt(fn, k) == IF k \in 1..Len(fn) THEN fn[k] ELSE None

\* The number of present values among the first k returns of script fn.
RECURSIVE Rank(_, _)
Rank(fn, k) ==
    IF k = 0 THEN 0
    ELSE Rank(fn, k - 1) + (IF IsSome(ScriptAt(fn, k)) THEN 1 ELSE 0)

\* The call on which script fn first returns None.
FirstNone(fn) ==
    CHOOSE k \in 1..Len(fn) + 1 :
        /\ IsNone(ScriptAt(fn, k))
        /\ \A m \in 1..k - 1 : IsSome(fn[m])

\* s without its longest prefix of elements satisfying pred.
RECURSIVE SkipPrefix(_, _)
SkipPrefix(s, pred) ==
    IF s # <<>> /\ Head(s) \in pred THEN SkipPrefix(Tail(s), pred) ELSE s

\* The longest prefix of s whose elements all satisfy pred.
RECURSIVE LongestPrefix(_, _)
LongestPrefix(s, pred) ==
    IF s # <<>> /\ Head(s) \in pred
    THEN <<Head(s)>> \o LongestPrefix(Tail(s), pred)
    ELSE <<>>

Min(a, b) == IF a < b THEN a ELSE b

\* What the j-th Next call returns when the iterator yields exactly the
\* elements of s and then None.
Yield(s, j) == IF j \in 1..Len(s) THEN Some(s[j]) ELSE None

OverFunc(kind) == it0.kind = kind /\ it0.inner.kind = "func"

OverSlice(kind) == it0.kind = kind /\ it0.inner.kind = "slice"

\* ToSlice was handed the iterator as constructed.
Collected == result # <<>> /\ hist = <<>> /\ op.name = "ToSlice"

\* C1: once Fuse(it).Next has returned None, every later Next call returns
\* None and the upstream callback is not called again, whatever it would
\* return.
C1_FuseSticky ==
    OverFunc("fuse") =>
        \A i \in 1..Len(hist) : \A j \in i + 1..Len(hist) :
            IsNone(hist[i].v) =>
                IsNone(hist[j].v) /\ hist[j].calls = hist[i].calls

\* C1 witness: Fuse returned None, was called again, and the upstream's next
\* return would have been present.
C1_Witness ==
    /\ OverFunc("fuse")
    /\ \E i \in 1..Len(hist) - 1 :
        /\ IsNone(hist[i].v)
        /\ IsSome(ScriptAt(it0.inner.fn, hist[i].calls[1] + 1))

C4_FirstNNeverYielded ==
    OverFunc("drop") =>
        \A j \in 1..Len(hist) :
            IsSome(hist[j].v) =>
                Rank(it0.inner.fn, hist[j].calls[1]) > it0.drop

\* C4 amended: with k the number of present values the upstream produces
\* before its first absent, no value among the first min(n, k) present
\* values of the upstream is ever yielded by Drop(it, n).
C4_SkippedNeverYielded ==
    OverFunc("drop") =>
        \A j \in 1..Len(hist) :
            IsSome(hist[j].v) =>
                /\ hist[j].v = ScriptAt(it0.inner.fn, hist[j].calls[1])
                /\ Rank(it0.inner.fn, hist[j].calls[1])
                       > Min(it0.drop, FirstNone(it0.inner.fn) - 1)

\* C4 witness: the upstream returned absent during the skipping, resumed,
\* and Drop yielded one of its first n present values.
C4_Witness ==
    /\ OverFunc("drop")
    /\ FirstNone(it0.inner.fn) - 1 < it0.drop
    /\ \E j \in 1..Len(hist) :
        /\ IsSome(hist[j].v)
        /\ Rank(it0.inner.fn, hist[j].calls[1]) <= it0.drop

\* C5: ToSlice(Drop(Slice(S), n)) is S without its first min(n, len(S))
\* elements.
C5_DropSlice ==
    (OverSlice("drop") /\ Collected) =>
        LET S == it0.inner.slice IN
        result[1] = SubSeq(S, Min(it0.drop, Len(S)) + 1, Len(S))

\* C5 witness: ToSlice ran on a Drop that skips some but not all of S.
C5_Witness ==
    /\ OverSlice("drop")
    /\ Collected
    /\ it0.drop > 0
    /\ it0.drop < Len(it0.inner.slice)

\* C6 as claimed: once DropWhile(it, pred).Next has returned None, every
\* later Next call returns None.
C6_DropWhilePermanent ==
    OverFunc("dropWhile") =>
        \A i \in 1..Len(hist) : \A j \in i + 1..Len(hist) :
            IsNone(hist[i].v) => IsNone(hist[j].v)

\* C6 amended: Fuse and TakeWhile stay absent once they have returned
\* absent; DropWhile does not: once it has returned absent, every later Next
\* call makes one upstream call and returns exactly what that call returns.
C6_DoneFlags ==
    /\ (OverFunc("fuse") \/ OverFunc("takeWhile")) =>
        \A i \in 1..Len(hist) : \A j \in i + 1..Len(hist) :
            IsNone(hist[i].v) => IsNone(hist[j].v)
    /\ OverFunc("dropWhile") =>
        \A i \in 1..Len(hist) : \A j \in i + 1..Len(hist) :
            IsNone(hist[i].v) =>
                /\ hist[j].calls[1] = hist[j - 1].calls[1] + 1
                /\ hist[j].v = ScriptAt(it0.inner.fn, hist[j].calls[1])

\* C6 witness: DropWhile returned None and a later call returned a value.
C6_Witness ==
    /\ OverFunc("dropWhile")
    /\ \E i \in 1..Len(hist) : \E j \in i + 1..Len(hist) :
        IsNone(hist[i].v) /\ IsSome(hist[j].v)

\* C7: once TakeWhile(it, pred).Next has returned None, every later Next
\* call returns None without calling the upstream, so neither the failing
\* value nor any later upstream value is yielded.
C7_TakeWhilePermanent ==
    OverFunc("takeWhile") =>
        \A i \in 1..Len(hist) : \A j \in i + 1..Len(hist) :
            IsNone(hist[i].v) =>
                IsNone(hist[j].v) /\ hist[j].calls = hist[i].calls

\* C7 witness: a pulled value failed pred, TakeWhile was called again, and
\* the upstream's next return would have been a value satisfying pred.
C7_Witness ==
    /\ OverFunc("takeWhile")
    /\ \E i \in 1..Len(hist) - 1 :
        LET k == hist[i].calls[1] IN
        /\ IsNone(hist[i].v)
        /\ IsSome(ScriptAt(it0.inner.fn, k))
        /\ IsSome(ScriptAt(it0.inner.fn, k + 1))
        /\ Apply(it0.pred, Unwrap(ScriptAt(it0.inner.fn, k + 1)))

\* C8: ToSlice(TakeWhile(Slice(S), pred)) is the longest prefix of S whose
\* elements all satisfy pred.
C8_TakeWhileSlice ==
    (OverSlice("takeWhile") /\ Collected) =>
        result[1] = LongestPrefix(it0.inner.slice, it0.pred)

\* C8 witness: ToSlice ran, S has a failing element after a non-empty
\* passing prefix and a passing element after it.
C8_Witness ==
    /\ OverSlice("takeWhile")
    /\ Collected
    /\ LET S == it0.inner.slice IN
       \E k \in 2..Len(S) - 1 :
           /\ \A m \in 1..k - 1 : S[m] \in it0.pred
           /\ S[k] \notin it0.pred
           /\ S[k + 1] \in it0.pred

ChainOverFunc ==
    it0.kind = "chain" /\ it0.first.inner.kind = "func"

ChainOverSlice ==
    it0.kind = "chain" /\ it0.first.inner.kind = "slice"

\* C9: with p the call on which first returns its first None, Chain calls
\* first exactly on its calls 1..p and never again; calls 1..p-1 return
\* first's values and do not call second; every call from p on makes one
\* call of second and returns exactly what it returns.
C9_ChainNeverResumes ==
    ChainOverFunc =>
        LET p == FirstNone(it0.first.inner.fn) IN
        \A j \in 1..Len(hist) :
            /\ hist[j].calls[1] = Min(j, p)
            /\ j < p =>
                /\ hist[j].v = it0.first.inner.fn[j]
                /\ hist[j].calls[2] = 0
            /\ j >= p =>
                /\ hist[j].calls[2] = j - p + 1
                /\ hist[j].v = ScriptAt(it0.second.fn, j - p + 1)

\* C9 witness: Chain was called at a point where first, called once per
\* Chain call, would have returned a value after its first None.
C9_Witness ==
    /\ ChainOverFunc
    /\ \E j \in FirstNone(it0.first.inner.fn) + 1..Len(hist) :
        IsSome(ScriptAt(it0.first.inner.fn, j))

\* C10: Chain(Slice(A), Slice(B)) yields A followed by B, call by call with
\* no None before the end of B, and ToSlice of it is A \o B.
C10_ChainConcat ==
    ChainOverSlice =>
        LET AB == it0.first.inner.slice \o it0.second.slice IN
        /\ \A j \in 1..Len(hist) : hist[j].v = Yield(AB, j)
        /\ Collected => result[1] = AB

\* C10 witness: ToSlice ran on the chain of two non-empty slices.
C10_Witness ==
    /\ ChainOverSlice
    /\ Collected
    /\ it0.first.inner.slice # <<>>
    /\ it0.second.slice # <<>>

FlattenOverSlice == it0.kind = "flatten" /\ it0.inner.kind = "slice"

FlattenOverFunc == it0.kind = "flatten" /\ it0.inner.kind = "func"

\* The slices of a sequence of slice iterators, one after the other.
RECURSIVE Concat(_)
Concat(its) ==
    IF its = <<>> THEN <<>> ELSE Head(its).slice \o Concat(Tail(its))

\* C11: Flatten over a slice of slice iterators yields the concatenation of
\* the inner slices, call by call, and returns None only after its last
\* element, that is once the outer slice is used up, however many empty inner
\* slices lie anywhere in it; ToSlice of it is the concatenation.
C11_FlattenConcat ==
    FlattenOverSlice =>
        LET all == Concat(it0.inner.slice) IN
        /\ \A j \in 1..Len(hist) : hist[j].v = Yield(all, j)
        /\ \A j \in 1..Len(hist) : IsNone(hist[j].v) => it.inner.slice = <<>>
        /\ Collected => result[1] = all

\* C11 witness: two consecutive empty inner slices lie before a non-empty
\* one, and Flatten was called past them and then to its end.
C11_Witness ==
    /\ FlattenOverSlice
    /\ \E i \in 1..Len(it0.inner.slice) - 2 :
        /\ it0.inner.slice[i].slice = <<>>
        /\ it0.inner.slice[i + 1].slice = <<>>
        /\ it0.inner.slice[i + 2].slice # <<>>
        /\ \E j \in 1..Len(hist) : hist[j].v = Some(<<i + 2, 1>>)
    /\ IsNone(hist[Len(hist)].v)

\* C12: with p the call on which the outer callback first returns None, once
\* the outer callback has been called p times Flatten returns None on that
\* call and on every later one, and no later call calls the outer callback
\* or the current inner iterator.
C12_FlattenPermanent ==
    FlattenOverFunc =>
        LET p == FirstNone(it0.inner.fn) IN
        \A i \in 1..Len(hist) :
            hist[i].calls[1] >= p =>
                /\ hist[i].calls[1] = p
                /\ IsNone(hist[i].v)
                /\ \A j \in i + 1..Len(hist) : hist[j].calls = hist[i].calls

\* C12 witness: Flatten was called again after the outer callback's first
\* None, at a point where the outer callback would have handed out another
\* inner iterator.
C12_Witness ==
    /\ FlattenOverFunc
    /\ it.done
    /\ IsSome(NextOf(it.inner).v)
    /\ Len(hist) >= 2
    /\ hist[Len(hist) - 1].calls[1] = FirstNone(it0.inner.fn)

\* The number of present Options among the first j results in hist.
RECURSIVE Yielded(_)
Yielded(j) ==
    IF j = 0 THEN 0 ELSE Yielded(j - 1) + (IF IsSome(hist[j].v) THEN 1 ELSE 0)

\* C13: Take(it, n) yields, in order and without skipping any, the first
\* present values of the upstream, at most n of them; its counter is n less
\* the number of values yielded, within 0..n; over Repeat(v) it yields v
\* exactly n times, Count of it is n, and with n = 0 its first call returns
\* None.
C13_TakeFirstN ==
    /\ it0.kind = "take" =>
        /\ it.take \in 0..it0.take
        /\ op.name = "none" => it.take = it0.take - Yielded(Len(hist))
    /\ OverFunc("take") =>
        \A j \in 1..Len(hist) :
            IsSome(hist[j].v) =>
                /\ hist[j].v = ScriptAt(it0.inner.fn, hist[j].calls[1])
                /\ Rank(it0.inner.fn, hist[j].calls[1]) = Yielded(j)
    /\ it0.kind = "take" /\ it0.inner.kind = "repeat" =>
        /\ \A j \in 1..Len(hist) :
            hist[j].v = IF j <= it0.take THEN Some(it0.inner.value) ELSE None
        /\ (op.name = "Count" /\ hist = <<>>) => result[1] = it0.take

\* C13 witness: Count ran on Take(Repeat(v), n) with n > 0.
C13_Witness ==
    /\ it0.kind = "take"
    /\ it0.inner.kind = "repeat"
    /\ it0.take > 0
    /\ op.name = "Count"
    /\ hist = <<>>
    /\ result = <<it0.take>>

\* The calls the callback had had before the consumer's j-th Next call.
CallsBefore(j) == IF j = 1 THEN 0 ELSE hist[j - 1].calls[1]

\* C14: every Next call of Filter pulls the upstream until a result is None
\* or a value satisfying pred and returns that result: every value yielded
\* satisfies pred, every result pulled and discarded is a value failing
\* pred, and None is returned only when the last pull returned None; over
\* Slice(S) it yields the elements of S satisfying pred, in order.
C14_FilterExact ==
    /\ OverFunc("filter") =>
        \A j \in 1..Len(hist) :
            LET b == hist[j].calls[1] IN
            /\ b > CallsBefore(j)
            /\ hist[j].v = ScriptAt(it0.inner.fn, b)
            /\ IsSome(hist[j].v) => Unwrap(hist[j].v) \in it0.pred
            /\ \A m \in CallsBefore(j) + 1..b - 1 :
                /\ IsSome(ScriptAt(it0.inner.fn, m))
                /\ Unwrap(ScriptAt(it0.inner.fn, m)) \notin it0.pred
    /\ OverSlice("filter") =>
        LET kept == SelectSeq(it0.inner.slice, LAMBDA x : x \in it0.pred) IN
        /\ \A j \in 1..Len(hist) : hist[j].v = Yield(kept, j)
        /\ Collected => result[1] = kept

\* C14 witness: a call of Filter discarded a value and yielded a later one,
\* after an earlier call had yielded a value.
C14_Witness ==
    /\ OverFunc("filter")
    /\ \E j \in 2..Len(hist) :
        /\ IsSome(hist[j - 1].v)
        /\ IsSome(hist[j].v)
        /\ hist[j].calls[1] >= hist[j - 1].calls[1] + 2

\* The values a source yields before its first None.
Source(src) ==
    IF src.kind = "slice"
    THEN src.slice
    ELSE [k \in 1..FirstNone(src.fn) - 1 |-> Unwrap(src.fn[k])]

\* The first element of s satisfying pred, as an Option.
FirstMatch(s, pred) ==
    IF \E k \in 1..Len(s) : s[k] \in pred
    THEN Some(s[CHOOSE k \in 1..Len(s) :
                    /\ s[k] \in pred
                    /\ \A m \in 1..k - 1 : s[m] \notin pred])
    ELSE None

\* The consuming function op ran on the source as constructed.
Consumed(name) ==
    /\ it0.kind \in {"slice", "func"}
    /\ op.name = name
    /\ hist = <<>>

\* C15: Find(it, pred) returns the first value satisfying pred among those
\* it yields before its first None, and None if there is none.
C15_FindFirst ==
    Consumed("Find") => result[1] = FirstMatch(Source(it0), op.pred)

\* C15 witness: Find passed over a value failing pred and returned a later
\* one, with the callback's first None still after it.
C15_Witness ==
    /\ Consumed("Find")
    /\ it0.kind = "func"
    /\ IsSome(result[1])
    /\ it.calls >= 2
    /\ FirstNone(it0.fn) <= Len(it0.fn)

\* C16: Slice(S) yields the elements of S once each, in order, and None on
\* every call after them; ToSlice(Slice(S)) is S.
C16_SliceRoundTrip ==
    it0.kind = "slice" =>
        /\ \A j \in 1..Len(hist) : hist[j].v = Yield(it0.slice, j)
        /\ (op.name = "ToSlice" /\ hist = <<>>) => result[1] = it0.slice

\* C16 witness: Slice(S), S not empty, was called twice past its end.
C16_Witness ==
    /\ it0.kind = "slice"
    /\ it0.slice # <<>>
    /\ Len(hist) >= Len(it0.slice) + 2

\* fn folded from the left over the first k elements of s, from init.
RECURSIVE FoldLeft(_, _, _, _)
FoldLeft(s, k, init, fn) ==
    IF k = 0 THEN init ELSE ApplyFn(fn, FoldLeft(s, k - 1, init, fn), s[k])

\* C17: Fold(it, init, fn) is fn folded from the left, from init, over the
\* values it yields before its first None; ForEach hands exactly those
\* values on, in order (ToSlice collects them), and leaves a callback called
\* up to its first None and no further.
C17_FoldLeft ==
    /\ Consumed("Fold") =>
        /\ result[1] = FoldLeft(Source(it0), Len(Source(it0)), op.init, op.fn)
        /\ it0.kind = "func" => it.calls = FirstNone(it0.fn)
    /\ Consumed("ToSlice") =>
        /\ result[1] = Source(it0)
        /\ it0.kind = "func" => it.calls = FirstNone(it0.fn)

\* C17 witness: Fold ran with the order-telling fn over a callback that
\* yields two different values and then None.
C17_Witness ==
    /\ Consumed("Fold")
    /\ op.fn = "cons"
    /\ it0.kind = "func"
    /\ FirstNone(it0.fn) >= 3
    /\ it0.fn[1] # it0.fn[2]
    /\ it.calls = FirstNone(it0.fn)

\* C18: Unwrap on None panics with ErrUnwrapNone, returns nothing, and
\* nothing runs after it; Unwrap on Some(v) returns v and does not panic,
\* on every call.
C18_UnwrapPanics ==
    \A k \in 1..Len(unwrapped) :
        LET o == hist[unwrapped[k].call].v
            out == unwrapped[k].out
        IN  IF IsNone(o)
            THEN /\ out = Panic(ErrUnwrapNone)
                 /\ k = Len(unwrapped)
                 /\ Len(hist) = unwrapped[k].call
                 /\ result = <<>>
            ELSE out = Return(o.val)

\* C18 witness: Unwrap returned the value of a Some, and then Unwrap on a
\* None panicked.
C18_Witness ==
    /\ Len(unwrapped) = MaxUnwraps
    /\ IsSome(hist[unwrapped[1].call].v)
    /\ ~unwrapped[1].out.panic
    /\ IsNone(hist[Len(hist)].v)
    /\ Panicked

\* C19: if the upstream returns None while Drop is still skipping, that
\* call returns the None without a further pull; once any Next call on Drop
\* has returned, its counter is 0, and every later call pulls the upstream
\* once and returns what that pull returned.
C19_DropPolicy ==
    it0.kind = "drop" =>
        /\ (hist # <<>> \/ result # <<>>) => it.drop = 0
        /\ OverFunc("drop") =>
            /\ (hist # <<>> /\ FirstNone(it0.inner.fn) - 1 < it0.drop) =>
                /\ IsNone(hist[1].v)
                /\ hist[1].calls[1] = FirstNone(it0.inner.fn)
            /\ \A j \in 2..Len(hist) :
                /\ hist[j].calls[1] = hist[j - 1].calls[1] + 1
                /\ hist[j].v = ScriptAt(it0.inner.fn, hist[j].calls[1])

\* C19 witness: the callback returned None after Drop had skipped a value
\* and had two or more left to skip, and the next call yielded the value
\* the callback resumed with.
C19_Witness ==
    /\ OverFunc("drop")
    /\ FirstNone(it0.inner.fn) >= 2
    /\ it0.drop >= FirstNone(it0.inner.fn) + 1
    /\ Len(hist) >= 2
    /\ IsSome(hist[2].v)
    /\ it.drop = 0

\* C20: a Next call on a Take whose count is 0 returns None and leaves the
\* Take and its upstream as they were, so that over Slice(S) the elements
\* of S after the first n are still in the upstream; a Next call on a Take
\* whose count is not 0 pulls the upstream once, returns what the pull
\* returned, and lowers the count by one if that is a value and not at all
\* if it is None.
C20_TakeFrame ==
    [][(it.kind = "take" /\ Len(hist') = Len(hist) + 1) =>
        LET v == hist'[Len(hist')].v IN
        IF it.take = 0
        THEN /\ IsNone(v)
             /\ it' = it
             /\ it0.inner.kind = "slice" =>
                 it'.inner.slice = SubSeq(it0.inner.slice, it0.take + 1,
                                          Len(it0.inner.slice))
        ELSE /\ it'.inner = NextOf(it.inner).it
             /\ v = NextOf(it.inner).v
             /\ it'.take = it.take - (IF IsSome(v) THEN 1 ELSE 0)
      ]_vars

\* C20 witness: a Take over a slice longer than n has yielded n elements
\* and returned None to a further call, and the upstream still holds the
\* rest.
C20_Witness ==
    /\ OverSlice("take")
    /\ it0.take >= 1
    /\ it.take = 0
    /\ Len(hist) > it0.take
    /\ IsNone(hist[Len(hist)].v)
    /\ it.inner.slice # <<>>
    /\ it.inner.slice = SubSeq(it0.inner.slice, it0.take + 1,
                               Len(it0.inner.slice))

\* The index in s of its first element satisfying pred, 0 if there is none.
MatchAt(s, pred) ==
    IF \E k \in 1..Len(s) : s[k] \in pred
    THEN CHOOSE k \in 1..Len(s) :
            s[k] \in pred /\ \A m \in 1..k - 1 : s[m] \notin pred
    ELSE 0

\* How many results Find must have pulled from the source as constructed:
\* through the match, or else through the first None.
PulledByFind ==
    LET k == MatchAt(Source(it0), op.pred) IN
    IF k # 0 THEN k ELSE Len(Source(it0)) + 1

\* C21: Find(it, pred) leaves it advanced exactly past the value it
\* returns, and past its first None and no further when it returns None:
\* the Next calls made on it afterwards return what follows, in order.
C21_FindConsumesThroughMatch ==
    Consumed("Find") =>
        /\ it0.kind = "func" =>
            /\ it.calls = PulledByFind + Len(after)
            /\ \A j \in 1..Len(after) :
                after[j] = ScriptAt(it0.fn, PulledByFind + j)
        /\ it0.kind = "slice" =>
            /\ it.slice = SubSeq(it0.slice, PulledByFind + Len(after) + 1,
                                 Len(it0.slice))
            /\ \A j \in 1..Len(after) :
                after[j] = Yield(it0.slice, PulledByFind + j)

\* C21 witness: Find passed over a value, returned the next, and the Next
\* call after it returned the value that followed.
C21_Witness ==
    /\ Consumed("Find")
    /\ it0.kind = "func"
    /\ IsSome(result[1])
    /\ PulledByFind >= 2
    /\ after # <<>>
    /\ IsSome(after[1])
    /\ after[1] = it0.fn[PulledByFind + 1]

\* The most upstream pulls a Next call started on iterator i can need: one
\* per element left in the slice and one for its None; for Flatten two per
\* inner iterator left in the outer slice and two more.
PullBound(i) ==
    IF i.kind = "flatten"
    THEN 2 * Len(i.inner.slice) + 2
    ELSE Len(i.inner.slice) + 1

\* C22: over slices, every Next call of Filter, Drop, DropWhile and Flatten
\* run step by step returns, after no more upstream pulls than the
\* upstream has left to give, with what the method returns; and ForEach
\* over them finishes.
C22_Terminates ==
    /\ [](pc.at \in {"next", "test"} => pc.pulls <= PullBound(pc.start))
    /\ [](pc.at = "test" => Ret(it, pc.v) = NextOf(pc.start))
    /\ (pc.at = "next") ~> (pc.at = "test")
    /\ <>(pc.at = "done")

\* C22 witness: ForEach has finished, having handed on a value, and its
\* last Next call went round the loop and pulled the upstream three times
\* or more.
C22_Witness ==
    /\ pc.at = "done"
    /\ pc.seen # <<>>
    /\ pc.pulls >= 3

====
